---- MODULE Spec2Model ----
(***************************************************************************)
(* State-machine model of src/models/q_cached_gcn.py: the quantization     *)
(* codec, the broadcast cache with its admission policy use_cache, and the *)
(* two collective-broadcast-and-accumulate engines cached_broadcast        *)
(* (dense payload) and cached_broadcast_fwd (quantized payload), and the   *)
(* layer DistGCNLayer that calls them (forward: engine then weight         *)
(* product; backward: engine, gradients, all-reduce of grad_weight), run   *)
(* by a world of cooperating participants that meet at blocking            *)
(* collectives.                                                            *)
(*                                                                         *)
(* Numbers.  Feature values are integers.  A dequantized value is the      *)
(* exact rational codes/rscale + rmin; the model keeps it multiplied by    *)
(* QMax (fixed point with denominator QMax), so the quantized engine's     *)
(* buffers dq and z_loc are in units of 1/QMax.  rscale = QMax/(rmax-rmin) *)
(* is kept as the fraction [num, den].  Each partition owns one node, so   *)
(* a feature shard is one row and an adjacency shard is one number.        *)
(***************************************************************************)
EXTENDS Integers, Sequences, FiniteSets, TLC

\* ------------------------------------------------------------- constants

Ranks == 0 .. 1
WorldSize == Cardinality(Ranks)

Tags == {"ForwardL1", "ForwardL2", "BackwardL1", "BackwardL2"}
ForwardTags == {"ForwardL1", "ForwardL2"}
BackwardTags == {"BackwardL1", "BackwardL2"}

\* g_bcast_counter[tag][src] > 50 in use_cache
WarmUp == 50
\* 2**nbits - 1 with nbits = 8
QMax == 255

\* bounds of the model
MaxAhead == 2
MaxRounds == 2
ExtraRounds == 4
\* the feature rows given to quantization on its own: their length and values
CodecLen == 3
CodecVals == -2 .. 2

FeatDim == 1 .. 2
ZeroRow == [j \in FeatDim |-> 0]
\* local feature shards handed to DistGCNLayer.forward (rows with rmax > rmin)
FeatRows == {<<0, 1>>, <<2, 0>>}
\* grad_output shards handed to DistGCNLayer.backward
GradRows == {<<1, 0>>, <<1, 2>>}
AdjVals == 0 .. 2
ZeroScale == [num |-> 0, den |-> 1]
\* weight matrices (in_dim x out_dim) handed to DistGCNLayer.forward
ZeroMat == [i \in FeatDim |-> ZeroRow]
Weight0 == <<<<1, 2>>, <<0, 1>>>>
Weights == {<<<<1, 0>>, <<0, 1>>>>, Weight0}
NoCtx == [features |-> ZeroRow, weight |-> ZeroMat]

NoAlias == {}

\* DistGCNLayer.forward runs cached_broadcast_fwd under 'Forward'+tag,
\* DistGCNLayer.backward runs cached_broadcast under 'Backward'+tag
Engine(t) == IF t \in ForwardTags THEN "fwd" ELSE "plain"

VARIABLES
    g_cache_enabled,   \* tag -> BOOLEAN, static
    g_cache,           \* participant -> tag -> dict src -> payload
    g_bcast_counter,   \* participant -> tag -> src -> Nat
    g_epoch_counter,   \* participant -> tag -> Nat
    local_adj_parts,   \* participant -> src -> adjacency shard, static
    pc,                \* participant -> "idle" | "loop" | "bcast" | "after" | "ret" |
                       \*                "reduce" | "done" | "failed"
    tag,               \* participant -> tag of the running round
    local_feature,     \* participant -> input shard of the running round
    src,               \* participant -> loop index
    comp,              \* participant -> which dist.broadcast of the iteration (1..3)
    feature_bcast,     \* participant -> dense working buffer (cached_broadcast)
    q_feature_bcast,   \* participant -> codes buffer (cached_broadcast_fwd)
    rscale,            \* participant -> scale buffer
    rmin,              \* participant -> row-min buffer
    alias,             \* participant -> key of the cache entry the buffers are bound to
    z_loc,             \* participant -> accumulator
    ctx,               \* participant -> ctx.saved_tensors of the running layer call
    grad_features,     \* participant -> backward's grad_features
    grad_weight,       \* participant -> backward's grad_weight
    sched,             \* rounds started by some participant and not yet returned by all
    pos,               \* participant -> how many rounds of sched it has started
    cap,               \* the driver's limits: tags, number of rounds, input shards
    wire,              \* tag -> src -> payload of the last completed real broadcast
    wire_epoch         \* tag -> src -> the sender's epoch counter at that broadcast

vars == <<g_cache_enabled, g_cache, g_bcast_counter, g_epoch_counter,
          local_adj_parts, pc, tag, local_feature, src, comp, feature_bcast,
          q_feature_bcast, rscale, rmin, alias, z_loc, ctx, grad_features,
          grad_weight, sched, pos, cap, wire, wire_epoch>>

locals == <<tag, local_feature, src, comp, feature_bcast, q_feature_bcast,
            rscale, rmin, alias, z_loc>>
layer_vars == <<ctx, grad_features, grad_weight>>
statics == <<g_cache_enabled, local_adj_parts, cap>>

\* ---------------------------------------------------------- quantization

Min(S) == CHOOSE x \in S : \A y \in S : x <= y
Max(S) == CHOOSE x \in S : \A y \in S : x >= y
Abs(x) == IF x < 0 THEN -x ELSE x
Range(f) == {f[j] : j \in DOMAIN f}

compute_minmax_params(input) ==
    [rmin |-> Min(Range(input)), rmax |-> Max(Range(input))]

\* torch.clamp(., 0, 2**nbits - 1)
Clamp(n) == IF n < 0 THEN 0 ELSE IF n > QMax THEN QMax ELSE n

\* StochasticRound with a fault: torch.round(v + u), the - 0.5 is missing
StochasticRound_NoHalf(num, den) ==
    {n \in (num \div den) .. (num \div den) + 2 :
        2 * num - den <= 2 * n * den /\ 2 * n * den < 2 * num + 3 * den}

\* The integers torch.round(v + u - 0.5) can give for v = num/den and a
\* uniform u in [0, 1): every n with |v - n| < 1, and n = v - 1 when that
\* is even (u = 0 puts v - 0.5 on a tie, which rounds to even).
StochasticRound(num, den) ==
    {n \in (num \div den) - 1 .. (num \div den) + 1 :
        \/ Abs(num - n * den) < den
        \/ num = (n + 1) * den /\ n % 2 = 0}

\* torch.round(v) for v = num/den >= 0: to the nearest integer, a tie to the even one
RoundHalfEven(num, den) ==
    LET f == num \div den
        r == num - f * den
    IN  IF 2 * r < den THEN f
        ELSE IF 2 * r > den THEN f + 1
        ELSE IF f % 2 = 0 THEN f ELSE f + 1

\* The codes one element can get.  A constant row has rscale = inf and
\* 0 * inf = NaN, whose cast to uint8 is undefined: any code.
Codes(x, mm) ==
    IF mm.rmax = mm.rmin THEN 0 .. QMax
    ELSE {Clamp(n) : n \in StochasticRound((x - mm.rmin) * QMax, mm.rmax - mm.rmin)}

RECURSIVE RowsOver(_, _)
\* all rows q with q[j] \in Codes(features[j]) for j in 1..n
RowsOver(features, n) ==
    IF n = 0 THEN {<<>>}
    ELSE LET mm == compute_minmax_params(features)
         IN  {Append(r, c) : r \in RowsOver(features, n - 1),
                             c \in Codes(features[n], mm)}

\* quantization(features): the set of triples (q_features, rscale, rmin)
\* the call can return (is_stochastic=True, nbits=8)
quantization(features) ==
    LET mm == compute_minmax_params(features)
    IN  {[q |-> r, rscale |-> [num |-> QMax, den |-> mm.rmax - mm.rmin], rmin |-> mm.rmin] :
            r \in RowsOver(features, Len(features))}

\* the codes of one element under is_stochastic = st
CodesBy(x, mm, st) ==
    IF st THEN Codes(x, mm)
    ELSE IF mm.rmax = mm.rmin THEN 0 .. QMax
    ELSE {Clamp(RoundHalfEven((x - mm.rmin) * QMax, mm.rmax - mm.rmin))}

RECURSIVE RowsBy(_, _, _)
RowsBy(features, n, st) ==
    IF n = 0 THEN {<<>>}
    ELSE LET mm == compute_minmax_params(features)
         IN  {Append(r, c) : r \in RowsBy(features, n - 1, st),
                             c \in CodesBy(features[n], mm, st)}

\* quantization(features, nbits=8, is_stochastic=st)
quantization_by(features, st) ==
    LET mm == compute_minmax_params(features)
    IN  {[q |-> r, rscale |-> [num |-> QMax, den |-> mm.rmax - mm.rmin], rmin |-> mm.rmin] :
            r \in RowsBy(features, Len(features), st)}

\* dequantization(q_features, rscale, rmin) = q / rscale + rmin, times QMax
dequantization(q, rs, rm) ==
    [j \in DOMAIN q |-> (q[j] * rs.den * QMax) \div rs.num + QMax * rm]

\* ------------------------------------------------------- cache admission

\* F_L1 with a fault: no warm-up at all; a warm-up of two broadcasts; no
\* test of the tag; the counter of the caller's own rank
F_L1_NoWarmUp(p, t, s) == t = "ForwardL1" /\ g_bcast_counter[p][t][s] >= 0
F_L1_TwoWarmUps(p, t, s) == t = "ForwardL1" /\ g_bcast_counter[p][t][s] > 1
F_L1_AnyTag(p, t, s) == g_bcast_counter[p][t][s] > 0
F_L1_OwnCounter(p, t, s) == t = "ForwardL1" /\ g_bcast_counter[p][t][p] > 0

\* F_L1 with a fault: only the last source is served from the cache; only the first
F_L1_LastOnly(p, t, s) ==
    t = "ForwardL1" /\ g_bcast_counter[p][t][s] > 0 /\ s = WorldSize - 1
F_L1_FirstOnly(p, t, s) == t = "ForwardL1" /\ g_bcast_counter[p][t][s] > 0 /\ s = 0
\* F_L1 with a fault: the parity test of F_L2
F_L1_Parity(p, t, s) ==
    t = "ForwardL1" /\ g_bcast_counter[p][t][s] > 0 /\ g_epoch_counter[p][t] % 2 = 0

F_L1(p, t, s) == t = "ForwardL1" /\ g_bcast_counter[p][t][s] > 0

\* F_L2 with a fault: the warm-up of F_L1
F_L2_ShortWarmUp(p, t, s) ==
    t = "ForwardL2" /\ g_bcast_counter[p][t][s] > 0 /\ g_epoch_counter[p][t] % 2 = 0

\* F_L2 with a fault: the parity of the epoch counter is not tested
F_L2_NoParity(p, t, s) == t = "ForwardL2" /\ g_bcast_counter[p][t][s] > WarmUp

F_L2(p, t, s) ==
    t = "ForwardL2" /\ g_bcast_counter[p][t][s] > WarmUp /\ g_epoch_counter[p][t] % 2 = 0

\* use_cache with a fault: it depends on the caller's rank (never its own shard)
use_cache_NotSelf(p, t, s) ==
    g_cache_enabled[t] /\ (F_L1(p, t, s) \/ F_L2(p, t, s)) /\ s # p

\* use_cache with a fault: the enable table is not consulted
use_cache_IgnoreTable(p, t, s) == F_L1(p, t, s) \/ F_L2(p, t, s)

use_cache(p, t, s) == g_cache_enabled[t] /\ (F_L1(p, t, s) \/ F_L2(p, t, s))

\* assert(src in g_cache[tag])
InCache(p, t, s) == s \in DOMAIN g_cache[p][t]

\* d[s] = v on a dict
Store(d, s, v) == [x \in DOMAIN d \cup {s} |-> IF x = s THEN v ELSE d[x]]

\* ----------------------------------------------------------------- spmm

\* spmm with a fault: C = A x B
spmm_Overwrite(A, B, C) == [j \in DOMAIN C |-> A * B[j]]

\* spmm(A, B, C): C += A x B
spmm(A, B, C) == [j \in DOMAIN C |-> C[j] + A * B[j]]

RECURSIVE Dot(_, _, _, _)
\* sum over k in 1..n of A[i][k] * B[k][j]
Dot(Ai, B, j, n) == IF n = 0 THEN 0 ELSE Ai[n] * B[n][j] + Dot(Ai, B, j, n - 1)

\* torch.mm(A, B) on matrices kept as sequences of rows
mm(A, B) == [i \in 1 .. Len(A) |-> [j \in 1 .. Len(B[1]) |-> Dot(A[i], B, j, Len(B))]]

\* M.t()
Transpose(M) == [j \in 1 .. Len(M[1]) |-> [i \in 1 .. Len(M) |-> M[i][j]]]

\* a shard of one node is a matrix of one row
AsMatrix(row) == <<row>>

\* what the iteration hands to spmm: feature_bcast, or dq = dequantization(...)
Dense(e, b) == IF e = "plain" THEN b.feat ELSE dequantization(b.q, b.rscale, b.rmin)

\* ------------------------------------------------------------ the rounds

Buffers(p) ==
    [feat |-> feature_bcast[p], q |-> q_feature_bcast[p],
     rscale |-> rscale[p], rmin |-> rmin[p]]

SetBuffers(p, b) ==
    /\ feature_bcast' = [feature_bcast EXCEPT ![p] = b.feat]
    /\ q_feature_bcast' = [q_feature_bcast EXCEPT ![p] = b.q]
    /\ rscale' = [rscale EXCEPT ![p] = b.rscale]
    /\ rmin' = [rmin EXCEPT ![p] = b.rmin]

\* torch.zeros_like(local_feature), torch.zeros(local_feature.size()[0])
ZeroBuffers == [feat |-> ZeroRow, q |-> ZeroRow, rscale |-> ZeroScale, rmin |-> 0]

\* if src==env.rank: feature_bcast = local_feature.clone()
\*                   q_feature_bcast, rscale, rmin = quantization(local_feature)
OwnBuffers(p) ==
    IF src[p] # p THEN {Buffers(p)}
    ELSE IF Engine(tag[p]) = "plain"
         THEN {[Buffers(p) EXCEPT !.feat = local_feature[p]]}
         ELSE {[Buffers(p) EXCEPT !.q = t.q, !.rscale = t.rscale, !.rmin = t.rmin] :
                  t \in quantization(local_feature[p])}

\* feature_bcast = g_cache[tag][src]
\* q_feature_bcast, rscale, rmin = g_cache[tag][src]
FromCache(e, b, c) ==
    IF e = "plain" THEN [b EXCEPT !.feat = c]
    ELSE [b EXCEPT !.q = c.q, !.rscale = c.rscale, !.rmin = c.rmin]

\* feature_bcast.clone() / (q_feature_bcast.clone(), rscale.clone(), rmin.clone())
CacheValue(e, b) ==
    IF e = "plain" THEN b.feat ELSE [q |-> b.q, rscale |-> b.rscale, rmin |-> b.rmin]

\* Key with a fault: the layer is dropped from the key
Key_NoLayer(t) == IF t \in ForwardTags THEN "ForwardL1" ELSE "BackwardL1"

\* the key under which a round keeps its state in g_epoch_counter,
\* g_bcast_counter and g_cache: its tag
Key(t) == t

\* g_epoch_counter[tag] += 1
CountEpoch(n) == n + 1

\* CountBroadcast with a fault: the count restarts
CountBroadcast_Restart(n) == 1

\* g_bcast_counter[tag][src] += 1
CountBroadcast(n) == n + 1

\* Remember with a fault: only the first broadcast is kept
Remember_FirstOnly(d, t, s, v) ==
    IF g_cache_enabled[t] /\ s \notin DOMAIN d THEN Store(d, s, v) ELSE d

\* Remember with a fault: the enable table is not consulted
Remember_Always(d, t, s, v) == Store(d, s, v)

\* if g_cache_enabled[tag]: g_cache[tag][src] = clone of the buffers
Remember(d, t, s, v) == IF g_cache_enabled[t] THEN Store(d, s, v) ELSE d

\* for src in range(env.world_size)
NextSrc(s) == s + 1
NextPc(s) == IF NextSrc(s) = WorldSize THEN "ret" ELSE "loop"

\* the shards the driver passes: features to forward, grad_output to backward
Inputs(t) == IF t \in ForwardTags THEN cap.feats ELSE cap.grads

Undecided == [p \in Ranks |-> [s \in Ranks |-> "none"]]

\* the rounds a driver limited to the tags ts can start: a tag and every
\* participant's input shard
\* the features ctx holds for the call: forward saves its own input,
\* backward gets what the matching forward call saved
Saved(t, f) == IF t \in ForwardTags THEN {f} ELSE [Ranks -> cap.saved]

Rounds(ts) ==
    UNION {UNION {{[tag |-> t, x |-> f, saved |-> g, w |-> W, how |-> Undecided] :
                      g \in Saved(t, f), W \in cap.weights} :
                  f \in [Ranks -> Inputs(t)]} :
           t \in ts}

\* rounds participant p has started so far
Started(p) ==
    g_epoch_counter[p]["ForwardL1"] + g_epoch_counter[p]["ForwardL2"]
    + g_epoch_counter[p]["BackwardL1"] + g_epoch_counter[p]["BackwardL2"]

\* every participant runs the same sequence of rounds: the first to get to
\* a round chooses it, the others follow
NextRounds(p) ==
    IF pos[p] < Len(sched) THEN {sched[pos[p] + 1]}
    ELSE IF Len(sched) < MaxAhead /\ Started(p) < cap.rounds THEN Rounds(cap.tags)
    ELSE {}

\* entry of DistGCNLayer.forward / DistGCNLayer.backward, then of
\* cached_broadcast_fwd / cached_broadcast, up to the loop
StartRound(p) ==
    /\ pc[p] = "idle"
    /\ \E d \in NextRounds(p) :
          /\ sched' = IF pos[p] < Len(sched) THEN sched ELSE Append(sched, d)
          /\ pos' = [pos EXCEPT ![p] = @ + 1]
          /\ tag' = [tag EXCEPT ![p] = d.tag]
          /\ local_feature' = [local_feature EXCEPT ![p] = d.x[p]]
          /\ ctx' = [ctx EXCEPT ![p] = [features |-> d.saved[p], weight |-> d.w]]
          /\ g_epoch_counter' = [g_epoch_counter EXCEPT ![p][Key(d.tag)] = CountEpoch(@)]
    /\ z_loc' = [z_loc EXCEPT ![p] = ZeroRow]
    /\ SetBuffers(p, ZeroBuffers)
    /\ alias' = [alias EXCEPT ![p] = NoAlias]
    /\ src' = [src EXCEPT ![p] = 0]
    /\ comp' = [comp EXCEPT ![p] = 1]
    /\ pc' = [pc EXCEPT ![p] = "loop"]
    /\ UNCHANGED <<statics, g_cache, g_bcast_counter, wire, wire_epoch, grad_features,
                   grad_weight>>

\* one loop iteration up to its broadcast, or all of it on a cache hit
Iterate(p) ==
    /\ pc[p] = "loop"
    /\ \E b \in OwnBuffers(p) :
          LET t == tag[p]
              s == src[p]
              e == Engine(t)
          IN  IF use_cache(p, t, s)
              THEN IF InCache(p, t, s)
                   THEN LET c == FromCache(e, b, g_cache[p][t][s])
                        IN  /\ SetBuffers(p, c)
                            /\ alias' = [alias EXCEPT ![p] = {s}]
                            /\ z_loc' = [z_loc EXCEPT
                                   ![p] = spmm(local_adj_parts[p][s], Dense(e, c), @)]
                            /\ src' = [src EXCEPT ![p] = NextSrc(s)]
                            /\ pc' = [pc EXCEPT ![p] = NextPc(s)]
                            /\ sched' = [sched EXCEPT ![pos[p]].how[p][s] = "cache"]
                   ELSE /\ SetBuffers(p, b)
                        /\ alias' = [alias EXCEPT ![p] = IF s = p THEN NoAlias ELSE @]
                        /\ pc' = [pc EXCEPT ![p] = "failed"]
                        /\ UNCHANGED <<z_loc, src, sched>>
              ELSE /\ SetBuffers(p, b)
                   /\ alias' = [alias EXCEPT ![p] = IF s = p THEN NoAlias ELSE @]
                   /\ pc' = [pc EXCEPT ![p] = "bcast"]
                   /\ sched' = [sched EXCEPT ![pos[p]].how[p][s] = "real"]
                   /\ UNCHANGED <<z_loc, src>>
    /\ comp' = [comp EXCEPT ![p] = 1]
    /\ UNCHANGED <<statics, g_cache, g_bcast_counter, g_epoch_counter,
                   tag, local_feature, pos, wire, wire_epoch, layer_vars>>

\* the buffer component the c-th dist.broadcast of an iteration carries
Component(e, c) ==
    IF e = "plain" THEN "feat"
    ELSE IF c = 1 THEN "q" ELSE IF c = 2 THEN "rscale" ELSE "rmin"

LastComponent(e) == IF e = "plain" THEN 1 ELSE 3

\* dist.broadcast(buffer, src=s) receives in place: participant p's buffer
\* takes the source's value, and so does the cache entry it is bound to
Receive(p, s, f) ==
    LET v == Buffers(s)[f]
        t == tag[p]
    IN  [buf |-> [Buffers(p) EXCEPT ![f] = v],
         cache |-> IF alias[p] = NoAlias \/ p = s THEN g_cache[p]
                   ELSE LET k == CHOOSE x \in alias[p] : TRUE
                        IN  [g_cache[p] EXCEPT ![t][k] =
                                IF f = "feat" THEN v ELSE [@ EXCEPT ![f] = v]]]

\* the collective completes once every participant has reached the matching call
Broadcast ==
    \E s \in Ranks, c \in 1 .. 3 :
        /\ \A p \in Ranks :
              /\ pc[p] = "bcast" /\ src[p] = s /\ comp[p] = c
              /\ Engine(tag[p]) = Engine(tag[s])
        /\ LET e == Engine(tag[s])
               f == Component(e, c)
               r == [p \in Ranks |-> Receive(p, s, f)]
           IN  /\ feature_bcast' = [p \in Ranks |-> r[p].buf.feat]
               /\ q_feature_bcast' = [p \in Ranks |-> r[p].buf.q]
               /\ rscale' = [p \in Ranks |-> r[p].buf.rscale]
               /\ rmin' = [p \in Ranks |-> r[p].buf.rmin]
               /\ g_cache' = [p \in Ranks |-> r[p].cache]
               /\ IF c = LastComponent(e)
                  THEN /\ pc' = [p \in Ranks |-> "after"]
                       /\ comp' = comp
                       /\ wire' = [wire EXCEPT
                              ![tag[s]] = Store(@, s, CacheValue(e, Buffers(s)))]
                       /\ wire_epoch' = [wire_epoch EXCEPT
                              ![tag[s]] = Store(@, s, g_epoch_counter[s][tag[s]])]
                  ELSE /\ pc' = pc
                       /\ comp' = [p \in Ranks |-> c + 1]
                       /\ UNCHANGED <<wire, wire_epoch>>
        /\ UNCHANGED <<statics, g_bcast_counter, g_epoch_counter, tag,
                       local_feature, src, alias, z_loc, sched, pos, layer_vars>>

\* after the broadcast: count it, cache it, accumulate
AfterBroadcast(p) ==
    /\ pc[p] = "after"
    /\ LET t == tag[p]
           s == src[p]
           e == Engine(t)
           b == Buffers(p)
       IN  /\ g_bcast_counter' = [g_bcast_counter EXCEPT ![p][Key(t)][s] = CountBroadcast(@)]
           /\ g_cache' = [g_cache EXCEPT ![p][Key(t)] = Remember(@, t, s, CacheValue(e, b))]
           /\ z_loc' = [z_loc EXCEPT ![p] = spmm(local_adj_parts[p][s], Dense(e, b), @)]
           /\ src' = [src EXCEPT ![p] = NextSrc(s)]
           /\ pc' = [pc EXCEPT ![p] = NextPc(s)]
    /\ UNCHANGED <<statics, g_epoch_counter, tag, local_feature, comp,
                   feature_bcast, q_feature_bcast, rscale, rmin, alias, sched, pos, wire,
                   wire_epoch, layer_vars>>

\* all_reduce_sum with a fault: only rank 0 gets the sum (a reduce)
all_reduce_sum_RootOnly(g) ==
    [p \in Ranks |->
        IF p # 0 THEN g[p]
        ELSE [i \in FeatDim |-> [j \in FeatDim |-> g[0][i][j] + g[1][i][j]]]]

\* DistEnv.env.all_reduce_sum(grad_weight): every participant's tensor
\* becomes the elementwise sum over the participants
all_reduce_sum(g) ==
    [p \in Ranks |-> [i \in FeatDim |-> [j \in FeatDim |-> g[0][i][j] + g[1][i][j]]]]

\* the layer after its engine has returned: forward multiplies by the
\* weight; backward computes grad_features and its local grad_weight and
\* goes to the reduction
LayerTail(p) ==
    /\ pc[p] = "ret"
    /\ IF tag[p] \in ForwardTags
       THEN /\ z_loc' = [z_loc EXCEPT ![p] = mm(AsMatrix(@), ctx[p].weight)[1]]
            /\ pc' = [pc EXCEPT ![p] = "done"]
            /\ UNCHANGED <<grad_features, grad_weight>>
       ELSE /\ grad_features' = [grad_features EXCEPT
                   ![p] = mm(AsMatrix(z_loc[p]), Transpose(ctx[p].weight))[1]]
            /\ grad_weight' = [grad_weight EXCEPT
                   ![p] = mm(Transpose(AsMatrix(ctx[p].features)), AsMatrix(z_loc[p]))]
            /\ pc' = [pc EXCEPT ![p] = "reduce"]
            /\ UNCHANGED z_loc
    /\ UNCHANGED <<statics, g_cache, g_bcast_counter, g_epoch_counter, tag,
                   local_feature, src, comp, feature_bcast, q_feature_bcast, rscale,
                   rmin, alias, ctx, sched, pos, wire, wire_epoch>>

\* the reduction completes once every participant has reached it
AllReduce ==
    /\ \A p \in Ranks : pc[p] = "reduce"
    /\ grad_weight' = all_reduce_sum(grad_weight)
    /\ pc' = [p \in Ranks |-> "done"]
    /\ UNCHANGED <<statics, g_cache, g_bcast_counter, g_epoch_counter, locals,
                   ctx, grad_features, sched, pos, wire, wire_epoch>>

\* rounds of sched participant q has returned from, once p returns
Finished(p, q) == IF q = p \/ pc[q] = "idle" THEN pos[q] ELSE pos[q] - 1

\* the layer call returns: its locals go, and a round every participant
\* has returned from leaves sched
Return(p) ==
    /\ pc[p] = "done"
    /\ pc' = [pc EXCEPT ![p] = "idle"]
    /\ LET k == Min({Finished(p, q) : q \in Ranks})
       IN  /\ sched' = SubSeq(sched, k + 1, Len(sched))
           /\ pos' = [q \in Ranks |-> pos[q] - k]
    /\ z_loc' = [z_loc EXCEPT ![p] = ZeroRow]
    /\ SetBuffers(p, ZeroBuffers)
    /\ alias' = [alias EXCEPT ![p] = NoAlias]
    /\ src' = [src EXCEPT ![p] = 0]
    /\ comp' = [comp EXCEPT ![p] = 1]
    /\ tag' = [tag EXCEPT ![p] = "ForwardL1"]
    /\ local_feature' = [local_feature EXCEPT ![p] = ZeroRow]
    /\ ctx' = [ctx EXCEPT ![p] = NoCtx]
    /\ grad_features' = [grad_features EXCEPT ![p] = ZeroRow]
    /\ grad_weight' = [grad_weight EXCEPT ![p] = ZeroMat]
    /\ UNCHANGED <<statics, g_cache, g_bcast_counter, g_epoch_counter, wire, wire_epoch>>

\* ------------------------------------------------------- specifications

Tables == [Tags -> BOOLEAN]
\* the first table the module assigns to g_cache_enabled, and the second
Table1 == [t \in Tags |-> t \in ForwardTags]
Table2 == [t \in Tags |-> FALSE]

AdjSets == [Ranks -> [Ranks -> AdjVals]]
Adj0 == [p \in Ranks |-> [s \in Ranks |-> IF p < s THEN 2 ELSE 1]]

\* module load: empty cache, zero counters; no call is running
InitOf(scenarios) ==
    /\ \E sc \in scenarios :
          /\ g_cache_enabled = sc.table
          /\ cap = sc.cap
          /\ local_adj_parts = sc.adj
    /\ g_cache = [p \in Ranks |-> [t \in Tags |-> <<>>]]
    /\ g_bcast_counter = [p \in Ranks |-> [t \in Tags |-> [s \in Ranks |-> 0]]]
    /\ g_epoch_counter = [p \in Ranks |-> [t \in Tags |-> 0]]
    /\ pc = [p \in Ranks |-> "idle"]
    /\ tag = [p \in Ranks |-> "ForwardL1"]
    /\ local_feature = [p \in Ranks |-> ZeroRow]
    /\ src = [p \in Ranks |-> 0]
    /\ comp = [p \in Ranks |-> 1]
    /\ feature_bcast = [p \in Ranks |-> ZeroRow]
    /\ q_feature_bcast = [p \in Ranks |-> ZeroRow]
    /\ rscale = [p \in Ranks |-> ZeroScale]
    /\ rmin = [p \in Ranks |-> 0]
    /\ alias = [p \in Ranks |-> NoAlias]
    /\ z_loc = [p \in Ranks |-> ZeroRow]
    /\ ctx = [p \in Ranks |-> NoCtx]
    /\ grad_features = [p \in Ranks |-> ZeroRow]
    /\ grad_weight = [p \in Ranks |-> ZeroMat]
    /\ sched = <<>>
    /\ pos = [p \in Ranks |-> 0]
    /\ wire = [t \in Tags |-> <<>>]
    /\ wire_epoch = [t \in Tags |-> <<>>]

\* the driver's limits: tags, rounds, forward inputs, grad_outputs, the
\* features backward finds saved, weights
CapOf(ts, n, fs, gs, ss, ws) ==
    [tags |-> ts, rounds |-> n, feats |-> fs, grads |-> gs, saved |-> ss, weights |-> ws]

Cap(ts, n, fs, gs) == CapOf(ts, n, fs, gs, {<<0, 1>>}, {Weight0})

\* any table, any tags, a few rounds
Short ==
    {[table |-> tb, cap |-> Cap(Tags, MaxRounds, FeatRows, GradRows), adj |-> Adj0] :
        tb \in Tables}
\* the first table, ForwardL2 rounds past the warm-up
LongL2 ==
    {[table |-> Table1,
      cap |-> Cap({"ForwardL2"}, WarmUp + ExtraRounds, FeatRows, GradRows),
      adj |-> Adj0]}
\* the first table, ForwardL1 rounds
LongL1 ==
    {[table |-> Table1,
      cap |-> Cap({"ForwardL1"}, MaxRounds + 2, FeatRows, GradRows),
      adj |-> Adj0]}
\* any table, any tags, one input shard per direction
Plain ==
    {[table |-> tb,
      cap |-> Cap(Tags, MaxRounds, {<<0, 1>>}, {<<1, 0>>}),
      adj |-> Adj0] : tb \in Tables}

Init == InitOf(Short \cup LongL1 \cup LongL2)

Next ==
    \/ \E p \in Ranks : StartRound(p)
    \/ \E p \in Ranks : Iterate(p)
    \/ Broadcast
    \/ \E p \in Ranks : AfterBroadcast(p)
    \/ \E p \in Ranks : LayerTail(p)
    \/ AllReduce
    \/ \E p \in Ranks : Return(p)

Spec == Init /\ [][Next]_vars

InitL1 == InitOf(LongL1)
SpecL1 == InitL1 /\ [][Next]_vars

\* the unquantized engine (backward rounds) over every adjacency shard set
Acc ==
    {[table |-> tb, cap |-> Cap(BackwardTags, MaxRounds, FeatRows, GradRows), adj |-> a] :
        tb \in {Table1, Table2, [t \in Tags |-> TRUE]}, a \in AdjSets}

InitAcc == InitOf(Acc)
SpecAcc == InitAcc /\ [][Next]_vars

InitL2 == InitOf(LongL2)
SpecL2 == InitL2 /\ [][Next]_vars

\* one backward call over every adjacency shard set, with every choice of
\* saved features, grad_output and weight
Grad ==
    {[table |-> tb,
      cap |-> CapOf(BackwardTags, 1, FeatRows, GradRows, FeatRows, Weights),
      adj |-> a] : tb \in {Table1, Table2}, a \in AdjSets}

InitGrad == InitOf(Grad)
SpecGrad == InitGrad /\ [][Next]_vars

\* ------------------------------------------------- the codec on its own

\* rows with rmax > rmin
CodecRows == {r \in [1 .. CodecLen -> CodecVals] : \E i, j \in 1 .. CodecLen : r[i] # r[j]}

\* quantization(local_feature, is_stochastic=...) called by participant 0
\* outside any round
Quantize ==
    /\ pc[0] = "quantize"
    /\ \E t \in quantization_by(local_feature[0], cap.is_stochastic) :
          /\ q_feature_bcast' = [q_feature_bcast EXCEPT ![0] = t.q]
          /\ rscale' = [rscale EXCEPT ![0] = t.rscale]
          /\ rmin' = [rmin EXCEPT ![0] = t.rmin]
    /\ pc' = [pc EXCEPT ![0] = "dequantize"]
    /\ UNCHANGED <<statics, g_cache, g_bcast_counter, g_epoch_counter, tag,
                   local_feature, src, comp, feature_bcast, alias, z_loc,
                   layer_vars, sched, pos, wire, wire_epoch>>

\* dequantization(q_feature_bcast, rscale, rmin) of what Quantize returned
Dequantize ==
    /\ pc[0] = "dequantize"
    /\ feature_bcast' = [feature_bcast EXCEPT
           ![0] = dequantization(q_feature_bcast[0], rscale[0], rmin[0])]
    /\ pc' = [pc EXCEPT ![0] = "dequantized"]
    /\ UNCHANGED <<statics, g_cache, g_bcast_counter, g_epoch_counter, tag,
                   local_feature, src, comp, q_feature_bcast, rscale, rmin, alias,
                   z_loc, layer_vars, sched, pos, wire, wire_epoch>>

InitCodec ==
    /\ g_cache_enabled = Table2
    /\ \E st \in BOOLEAN : cap = [is_stochastic |-> st]
    /\ local_adj_parts = Adj0
    /\ g_cache = [p \in Ranks |-> [t \in Tags |-> <<>>]]
    /\ g_bcast_counter = [p \in Ranks |-> [t \in Tags |-> [s \in Ranks |-> 0]]]
    /\ g_epoch_counter = [p \in Ranks |-> [t \in Tags |-> 0]]
    /\ pc = [p \in Ranks |-> IF p = 0 THEN "quantize" ELSE "idle"]
    /\ tag = [p \in Ranks |-> "ForwardL1"]
    /\ \E x \in CodecRows : local_feature = [p \in Ranks |-> IF p = 0 THEN x ELSE ZeroRow]
    /\ src = [p \in Ranks |-> 0]
    /\ comp = [p \in Ranks |-> 1]
    /\ feature_bcast = [p \in Ranks |-> ZeroRow]
    /\ q_feature_bcast = [p \in Ranks |-> ZeroRow]
    /\ rscale = [p \in Ranks |-> ZeroScale]
    /\ rmin = [p \in Ranks |-> 0]
    /\ alias = [p \in Ranks |-> NoAlias]
    /\ z_loc = [p \in Ranks |-> ZeroRow]
    /\ ctx = [p \in Ranks |-> NoCtx]
    /\ grad_features = [p \in Ranks |-> ZeroRow]
    /\ grad_weight = [p \in Ranks |-> ZeroMat]
    /\ sched = <<>>
    /\ pos = [p \in Ranks |-> 0]
    /\ wire = [t \in Tags |-> <<>>]
    /\ wire_epoch = [t \in Tags |-> <<>>]

NextCodec == Quantize \/ Dequantize

SpecCodec == InitCodec /\ [][NextCodec]_vars

\* each participant is a running process, and a collective that every
\* participant has reached completes
Fairness ==
    /\ \A p \in Ranks :
          WF_vars(Iterate(p) \/ AfterBroadcast(p) \/ LayerTail(p) \/ Return(p))
    /\ WF_vars(Broadcast)
    /\ WF_vars(AllReduce)

InitFair == InitOf(Plain)
FairSpec == InitFair /\ [][Next]_vars /\ Fairness

\* ----------------------------------------------------------------- claims

\* the round participant p is running, and how it obtained source s in it
Round(p) == sched[pos[p]]
How(p, s) == Round(p).how[p][s]
Running(p) == pc[p] # "idle"

\* C1: whenever use_cache(tag, src) is true, the cache already holds an
\* entry for (tag, src) and a real broadcast for that pair has completed;
\* the assertion inside use_cache never fails.
C1_CacheInvariant ==
    /\ \A p \in Ranks : pc[p] # "failed"
    /\ \A p \in Ranks, t \in Tags, s \in Ranks :
          use_cache(p, t, s) =>
              /\ InCache(p, t, s)
              /\ s \in DOMAIN wire[t]
              /\ g_bcast_counter[p][t][s] > 0

\* a participant has just passed the assertion and taken a source from the cache
C1_Witness ==
    \E p \in Ranks, s \in Ranks :
        /\ Running(p) /\ src[p] = s + 1
        /\ How(p, s) = "cache" /\ use_cache(p, tag[p], s)

\* C2: with ForwardL1 enabled, the first ForwardL1 round broadcasts every
\* source for real, and the second serves every source from the cache
\* without a collective call.
C2_L1WarmUp ==
    \A p \in Ranks, s \in Ranks :
        (g_cache_enabled["ForwardL1"] /\ Running(p) /\ tag[p] = "ForwardL1") =>
            /\ g_epoch_counter[p]["ForwardL1"] = 1 =>
                  /\ How(p, s) # "cache"
                  /\ s < src[p] => How(p, s) = "real" /\ s \in DOMAIN wire["ForwardL1"]
            /\ g_epoch_counter[p]["ForwardL1"] = 2 =>
                  /\ How(p, s) # "real"
                  /\ pc[p] \notin {"bcast", "after"}
                  /\ s < src[p] => How(p, s) = "cache"

\* a participant has finished its second ForwardL1 round from the cache
C2_Witness ==
    \E p \in Ranks :
        /\ g_cache_enabled["ForwardL1"] /\ pc[p] = "ret" /\ tag[p] = "ForwardL1"
        /\ g_epoch_counter[p]["ForwardL1"] = 2
        /\ \A s \in Ranks : How(p, s) = "cache"

\* C3: with ForwardL2 enabled, a source is served from the cache only after
\* 51 real broadcasts for it, and only in a round whose epoch counter is even.
C3_L2WarmUpParity ==
    \A p \in Ranks, s \in Ranks :
        (g_cache_enabled["ForwardL2"] /\ Running(p) /\ tag[p] = "ForwardL2"
            /\ How(p, s) = "cache") =>
            /\ g_bcast_counter[p]["ForwardL2"][s] >= WarmUp + 1
            /\ g_epoch_counter[p]["ForwardL2"] % 2 = 0

\* a ForwardL2 round has served a source from the cache
C3_Witness ==
    \E p \in Ranks, s \in Ranks :
        /\ g_cache_enabled["ForwardL2"] /\ Running(p) /\ tag[p] = "ForwardL2"
        /\ How(p, s) = "cache"

\* C4: participants take the sources in ascending order and decide alike
\* (real or cached) for each (round, source), so whenever participants
\* wait at a collective they wait at the same call: same round, same
\* source rank, same payload component.
C4_Lockstep ==
    /\ \A i \in 1 .. Len(sched), p \in Ranks, q \in Ranks, s \in Ranks :
          sched[i].how[p][s] # "none" /\ sched[i].how[q][s] # "none"
              => sched[i].how[p][s] = sched[i].how[q][s]
    /\ \A p \in Ranks, s \in Ranks :
          Running(p) =>
              (How(p, s) # "none" <=>
                  (s < src[p] \/ (s = src[p] /\ pc[p] \in {"bcast", "after"})))
    /\ \A p \in Ranks, q \in Ranks :
          pc[p] = "bcast" /\ pc[q] = "bcast" =>
              /\ pos[p] = pos[q] /\ tag[p] = tag[q]
              /\ src[p] = src[q] /\ comp[p] = comp[q]

\* every participant waits at the last call of a quantized round: source
\* WorldSize - 1, the row-min component
C4_Witness ==
    \A p \in Ranks :
        pc[p] = "bcast" /\ src[p] = WorldSize - 1 /\ comp[p] = 3 /\ Engine(tag[p]) = "fwd"

RECURSIVE SumOver(_, _, _, _)
\* sum over the sources in S of local_adj_parts[r][s] * x[s][j]
SumOver(S, r, x, j) ==
    IF S = {} THEN 0
    ELSE LET s == CHOOSE y \in S : TRUE
         IN  local_adj_parts[r][s] * x[s][j] + SumOver(S \ {s}, r, x, j)

\* row block r of (full adjacency) x (full feature matrix x)
DenseProduct(r, x) == [j \in FeatDim |-> SumOver(Ranks, r, x, j)]

\* C6: the unquantized engine returns, on participant r, the sum over the
\* sources s of adjacency_shards_r[s] x local_features_s of the round.
C6_Accumulation ==
    \A r \in Ranks :
        pc[r] = "ret" /\ Engine(tag[r]) = "plain" => z_loc[r] = DenseProduct(r, Round(r).x)

\* an unquantized round returns where every shard counts and the
\* participants' inputs differ
C6_Witness ==
    \E r \in Ranks :
        /\ pc[r] = "ret" /\ Engine(tag[r]) = "plain"
        /\ \A s \in Ranks : local_adj_parts[r][s] # 0
        /\ Round(r).x[0] # Round(r).x[1]

\* participant p has accumulated its own iteration and its buffers still
\* hold what it accumulated there
AfterOwnIteration(p) ==
    /\ Running(p) /\ src[p] = p + 1
    /\ pc[p] \in {"loop", "ret"} \/ (pc[p] = "bcast" /\ comp[p] = 1)

\* the buffers hold this round's local_feature (a quantization of it)
OwnData(p) ==
    IF Engine(tag[p]) = "plain" THEN feature_bcast[p] = local_feature[p]
    ELSE CacheValue("fwd", Buffers(p)) \in quantization(local_feature[p])

\* C7: in the iteration where source == self_rank a participant
\* accumulates its own local_features of the current round (the
\* dequantized quantization of them in the quantized variant).
C7_OwnData == \A p \in Ranks : AfterOwnIteration(p) => OwnData(p)

\* C8: the epoch counter of a tag goes up by one when a round with that tag
\* starts and changes at no other step; broadcast_count[tag][src] goes up
\* by one when a real broadcast for the pair is counted and changes at no
\* other step; neither ever decreases.
C8_Counters ==
    [][\A p \in Ranks, t \in Tags :
          /\ g_epoch_counter'[p][t] =
                g_epoch_counter[p][t]
                + (IF pc[p] = "idle" /\ pc'[p] # "idle" /\ tag'[p] = t THEN 1 ELSE 0)
          /\ \A s \in Ranks :
                g_bcast_counter'[p][t][s] =
                    g_bcast_counter[p][t][s]
                    + (IF pc[p] = "after" /\ pc'[p] # "after" /\ tag[p] = t /\ src[p] = s
                       THEN 1 ELSE 0)]_vars

\* a tag has seen two rounds and two real broadcasts of a source
C8_Witness ==
    \E p \in Ranks, t \in Tags, s \in Ranks :
        g_epoch_counter[p][t] = 2 /\ g_bcast_counter[p][t][s] = 2

\* participant p has received the broadcast for (t, s) and not yet stored it
Storing(p, t, s) == pc[p] = "after" /\ tag[p] = t /\ src[p] = s

\* C9: for an enabled tag the entry for (tag, src) exists from the first
\* real broadcast for the pair on, and it is the payload of the most recent
\* real broadcast for the pair.
C9_EntryIsLastBroadcast ==
    \A p \in Ranks, t \in Tags, s \in Ranks :
        g_cache_enabled[t] =>
            /\ InCache(p, t, s) <=> g_bcast_counter[p][t][s] > 0
            /\ InCache(p, t, s) /\ ~Storing(p, t, s) =>
                  s \in DOMAIN wire[t] /\ g_cache[p][t][s] = wire[t][s]

\* an entry has been overwritten by a second real broadcast with another payload
C9_Witness ==
    \E p \in Ranks, t \in Tags, s \in Ranks :
        /\ g_cache_enabled[t] /\ g_bcast_counter[p][t][s] = 2
        /\ Storing(1 - p, t, s) /\ InCache(1 - p, t, s)
        /\ g_cache[p][t][s] # g_cache[1 - p][t][s]

\* C10: use_cache is false for BackwardL1 and BackwardL2 in every state, so
\* a backward round broadcasts every source for real.
C10_BackwardNeverCached ==
    /\ \A p \in Ranks, t \in BackwardTags, s \in Ranks : ~use_cache(p, t, s)
    /\ \A p \in Ranks, s \in Ranks :
          Running(p) /\ tag[p] \in BackwardTags =>
              /\ How(p, s) # "cache"
              /\ s < src[p] =>
                    g_bcast_counter[p][tag[p]][s] = g_epoch_counter[p][tag[p]]

\* a second round of an enabled backward tag returns
C10_Witness ==
    \E p \in Ranks :
        /\ pc[p] = "ret" /\ tag[p] \in BackwardTags /\ g_cache_enabled[tag[p]]
        /\ g_epoch_counter[p][tag[p]] = 2
        /\ \A s \in Ranks : How(p, s) = "real" /\ InCache(p, tag[p], s)

\* C5: a round that every participant has started returns on every
\* participant, under weak fairness of each participant's steps and of the
\* collective.
C5_RoundsReturn ==
    \A p \in Ranks :
        (Running(p) /\ \A q \in Ranks : pos[q] >= pos[p]) ~> (pc[p] = "idle")

\* a participant is suspended at a collective of a round that the other
\* participant has started and not yet reached
C5_Witness ==
    \E p \in Ranks, q \in Ranks :
        /\ pc[p] = "bcast" /\ src[p] = 1
        /\ pos[q] = pos[p] /\ pc[q] = "after" /\ src[q] = 0

\* C11: under the second table (no tag enabled) the cache never holds an
\* entry, use_cache is false for every (tag, source), no source is served
\* from the cache, and between rounds broadcast_count[tag][source] equals
\* epoch_count[tag] for every source of every tag.
C11_SecondTableDisabled ==
    g_cache_enabled = Table2 =>
        \A p \in Ranks, t \in Tags, s \in Ranks :
            /\ DOMAIN g_cache[p][t] = {}
            /\ ~use_cache(p, t, s)
            /\ pc[p] # "failed"
            /\ Running(p) => How(p, s) # "cache"
            /\ pc[p] = "idle" => g_bcast_counter[p][t][s] = g_epoch_counter[p][t]

\* under the second table a participant is between rounds after two
\* ForwardL1 rounds, both broadcast for real
C11_Witness ==
    /\ g_cache_enabled = Table2
    /\ \E p \in Ranks :
          /\ pc[p] = "idle" /\ g_epoch_counter[p]["ForwardL1"] = 2
          /\ \A s \in Ranks : g_bcast_counter[p]["ForwardL1"][s] = 2

RECURSIVE SumFn(_, _)
\* sum of f[x] over x in S
SumFn(f, S) ==
    IF S = {} THEN 0
    ELSE LET x == CHOOSE y \in S : TRUE IN f[x] + SumFn(f, S \ {x})

\* elementwise sum over the participants of the matrices M[q]
SumMat(M) == [i \in FeatDim |-> [j \in FeatDim |-> SumFn([q \in Ranks |-> M[q][i][j]], Ranks)]]

\* features^T x aggregated_grad
Contribution(x, ag) == mm(Transpose(AsMatrix(x)), AsMatrix(ag))

\* C12: once backward has passed the reduction, grad_weight is the same on
\* every participant and is the sum over the participants p of
\* features_p^T x aggregated_grad_p, the contribution p computed locally
\* before the reduction.
C12_ReducedGradWeight ==
    /\ \A p \in Ranks :
          pc[p] = "reduce" => grad_weight[p] = Contribution(ctx[p].features, z_loc[p])
    /\ (\A q \in Ranks : pc[q] = "done" /\ tag[q] \in BackwardTags) =>
          \A p \in Ranks :
              grad_weight[p] =
                  SumMat([q \in Ranks |-> Contribution(ctx[q].features, z_loc[q])])
    /\ \A p \in Ranks :
          pc[p] = "done" /\ tag[p] \in BackwardTags =>
              grad_weight[p] =
                  SumMat([q \in Ranks |->
                             Contribution(Round(p).saved[q], DenseProduct(q, Round(p).x))])

\* every participant has passed the reduction, and the two local
\* contributions were different and not zero
C12_Witness ==
    /\ \A q \in Ranks : pc[q] = "done" /\ tag[q] \in BackwardTags
    /\ Contribution(ctx[0].features, z_loc[0]) # Contribution(ctx[1].features, z_loc[1])
    /\ \A q \in Ranks : Contribution(ctx[q].features, z_loc[q]) # ZeroMat

\* DistGCNLayer.forward on participant p with the payload reconstructed
\* exactly: (sum over s of adj_parts[s] x features_s) x weight
ForwardOutput(p, X, W) == mm(AsMatrix(DenseProduct(p, X)), W)[1]

\* the scalar loss whose gradient with respect to participant p's forward
\* output is G[p]: the sum over p of <G[p], output_p>
Loss(X, G, W) ==
    SumFn([p \in Ranks |->
              SumFn([j \in FeatDim |-> G[p][j] * ForwardOutput(p, X, W)[j]], FeatDim)],
          Ranks)

\* d Loss / d weight: the loss is linear in the weight, so the difference
\* quotient with step 1 is the derivative
Derivative(X, G, W) ==
    [i \in FeatDim |->
        [j \in FeatDim |-> Loss(X, G, [W EXCEPT ![i][j] = @ + 1]) - Loss(X, G, W)]]

\* C13: for every adjacency shard set, feature shards and weight of the
\* bounded sets, the reduced grad_weight backward returns is the derivative
\* with respect to the weight of the loss whose gradient with respect to
\* each participant's forward output is the grad_output given to backward.
C13_GradWeightIsDerivative ==
    \A p \in Ranks :
        pc[p] = "done" /\ tag[p] \in BackwardTags =>
            grad_weight[p] = Derivative(Round(p).saved, Round(p).x, Round(p).w)

\* the same restricted to symmetric adjacency (shard [p][s] equal to shard [s][p])
C13_SymmetricOnly ==
    (\A p \in Ranks, s \in Ranks : local_adj_parts[p][s] = local_adj_parts[s][p])
        => C13_GradWeightIsDerivative

\* C14: for a feature row with rmax > rmin and 8 bits, with or without
\* stochastic rounding, every code quantization produces lies in 0..255,
\* and every element of dequantization(quantization(X)) differs from the
\* element of X by at most (rmax - rmin) / 255.
C14_RoundTripBound ==
    LET X == local_feature[0]
        lim == compute_minmax_params(X)
    IN  /\ pc[0] \in {"dequantize", "dequantized"} =>
              \A j \in DOMAIN X : q_feature_bcast[0][j] \in 0 .. QMax
        /\ pc[0] = "dequantized" =>
              \A j \in DOMAIN X :
                  Abs(feature_bcast[0][j] - QMax * X[j]) <= lim.rmax - lim.rmin

\* the round trip of a row with an element strictly between rmin and rmax
\* that is not reproduced exactly
C14_Witness ==
    LET X == local_feature[0]
        lim == compute_minmax_params(X)
    IN  /\ pc[0] = "dequantized"
        /\ \E j \in DOMAIN X :
              /\ lim.rmin < X[j] /\ X[j] < lim.rmax
              /\ feature_bcast[0][j] # QMax * X[j]

\* C15: with ForwardL2 enabled, a ForwardL2 round with epoch counter e that
\* serves a source from the cache reads the payload of the real broadcast
\* made for that source in the round with epoch counter e - 1, and a round
\* with an odd epoch counter broadcasts every source for real and
\* overwrites the entry with that payload.
C15_RefreshEveryOtherEpoch ==
    \A p \in Ranks, s \in Ranks :
        (g_cache_enabled["ForwardL2"] /\ Running(p) /\ tag[p] = "ForwardL2") =>
            LET e == g_epoch_counter[p]["ForwardL2"]
            IN  /\ How(p, s) = "cache" =>
                      /\ wire_epoch["ForwardL2"][s] = e - 1
                      /\ g_cache[p]["ForwardL2"][s] = wire["ForwardL2"][s]
                      /\ alias[p] = {s} =>
                            CacheValue("fwd", Buffers(p)) = wire["ForwardL2"][s]
                /\ e % 2 = 1 =>
                      /\ How(p, s) # "cache"
                      /\ s < src[p] =>
                            /\ How(p, s) = "real"
                            /\ wire_epoch["ForwardL2"][s] = e
                            /\ g_cache[p]["ForwardL2"][s] = wire["ForwardL2"][s]

\* the second round served from the cache (epoch counter WarmUp + 4), after
\* the odd round before it has replaced the entry
C15_Witness ==
    \E p \in Ranks :
        /\ g_cache_enabled["ForwardL2"] /\ pc[p] = "ret" /\ tag[p] = "ForwardL2"
        /\ g_epoch_counter[p]["ForwardL2"] = WarmUp + 4
        /\ \A s \in Ranks :
              How(p, s) = "cache" /\ g_bcast_counter[p]["ForwardL2"][s] = WarmUp + 2

\* C16: a step of a round with tag T leaves the epoch counter, the
\* broadcast counters and the cache entries of every other tag unchanged,
\* and no step changes the cache-enable table.
C16_TagsIsolate ==
    [][/\ g_cache_enabled' = g_cache_enabled
       /\ \A p \in Ranks, t \in Tags :
             LET T == IF pc[p] # "idle" THEN {tag[p]}
                      ELSE IF pc'[p] # "idle" THEN {tag'[p]} ELSE {}
             IN  t \notin T =>
                     /\ g_epoch_counter'[p][t] = g_epoch_counter[p][t]
                     /\ g_bcast_counter'[p][t] = g_bcast_counter[p][t]
                     /\ g_cache'[p][t] = g_cache[p][t]]_vars

\* a ForwardL2 round has stored an entry while ForwardL1 holds another one
\* for the same source
C16_Witness ==
    \E p \in Ranks, s \in Ranks :
        /\ Running(p) /\ tag[p] = "ForwardL2" /\ src[p] > s
        /\ InCache(p, "ForwardL1", s) /\ InCache(p, "ForwardL2", s)
        /\ g_cache[p]["ForwardL1"][s] # g_cache[p]["ForwardL2"][s]

\* C17: for every tag and every table, between rounds broadcast_count[tag][s]
\* is the same for all sources s, so use_cache answers alike for all
\* sources when the round starts its loop, and within one round every
\* source is obtained the same way: all by real broadcasts or all from the
\* cache.
C17_UniformRounds ==
    \A p \in Ranks, s \in Ranks, r \in Ranks :
        /\ pc[p] = "idle" =>
              \A t \in Tags : g_bcast_counter[p][t][s] = g_bcast_counter[p][t][r]
        /\ Running(p) =>
              /\ How(p, s) # "none" /\ How(p, r) # "none" => How(p, s) = How(p, r)
              /\ pc[p] = "loop" /\ src[p] = 0 =>
                    (use_cache(p, tag[p], s) <=> use_cache(p, tag[p], r))

\* a participant is between rounds after a round of real broadcasts and a
\* round served from the cache
C17_Witness ==
    \E p \in Ranks, t \in Tags :
        /\ pc[p] = "idle" /\ g_epoch_counter[p][t] = 2
        /\ \A s \in Ranks : g_bcast_counter[p][t][s] = 1

\* C18: with ForwardL1 enabled, broadcast_count["ForwardL1"][s] never
\* exceeds 1; from the second ForwardL1 round on no real ForwardL1
\* broadcast happens, and every such round is served the payload that was
\* broadcast in the first round: the entry is never refreshed.
C18_L1NeverRefreshed ==
    /\ [](g_cache_enabled["ForwardL1"] =>
            \A p \in Ranks, s \in Ranks :
                /\ g_bcast_counter[p]["ForwardL1"][s] <= 1
                /\ s \in DOMAIN wire_epoch["ForwardL1"] => wire_epoch["ForwardL1"][s] = 1
                /\ (Running(p) /\ tag[p] = "ForwardL1"
                        /\ g_epoch_counter[p]["ForwardL1"] >= 2) =>
                      /\ pc[p] \notin {"bcast", "after"}
                      /\ How(p, s) # "real"
                      /\ s < src[p] =>
                            /\ How(p, s) = "cache"
                            /\ g_cache[p]["ForwardL1"][s] = wire["ForwardL1"][s]
                      /\ alias[p] = {s} =>
                            CacheValue("fwd", Buffers(p)) = wire["ForwardL1"][s])
    /\ [][g_cache_enabled["ForwardL1"] =>
            \A p \in Ranks, s \in Ranks :
                /\ s \in DOMAIN wire["ForwardL1"] =>
                      wire'["ForwardL1"][s] = wire["ForwardL1"][s]
                /\ (InCache(p, "ForwardL1", s) /\ ~Storing(p, "ForwardL1", s)) =>
                      g_cache'[p]["ForwardL1"][s] = g_cache[p]["ForwardL1"][s]]_vars

\* the fourth ForwardL1 round is served from the cache, with features that
\* are not the ones the participant had in the first round
C18_Witness ==
    \E p \in Ranks :
        /\ g_cache_enabled["ForwardL1"] /\ pc[p] = "ret" /\ tag[p] = "ForwardL1"
        /\ g_epoch_counter[p]["ForwardL1"] = MaxRounds + 2
        /\ \A s \in Ranks : How(p, s) = "cache"
        /\ g_cache[p]["ForwardL1"][p] \notin quantization(local_feature[p])

\* rounds of tag t that participant p has started and in which it has dealt
\* with source s, minus the real broadcasts it has counted for (t, s)
Lag(p, t, s) ==
    g_epoch_counter[p][t] - g_bcast_counter[p][t][s]
    - (IF Running(p) /\ tag[p] = t /\ s >= src[p] THEN 1 ELSE 0)

C20_NoReceiveIntoEntry ==
    /\ [](\A p \in Ranks :
            /\ pc[p] \in {"bcast", "after"} => alias[p] = NoAlias
            /\ \A k \in alias[p] :
                  /\ InCache(p, tag[p], k)
                  /\ CacheValue(Engine(tag[p]), Buffers(p)) = g_cache[p][tag[p]][k])
    /\ [][\A p \in Ranks, t \in Tags, s \in Ranks :
            (InCache(p, t, s) /\ g_cache'[p][t][s] # g_cache[p][t][s]) =>
                Storing(p, t, s) /\ pc'[p] # "after"]_vars

\* a participant goes on to another participant's source with its buffers
\* bound to the entry of the source before
C20_Witness ==
    \E p \in Ranks :
        /\ pc[p] = "loop" /\ src[p] # p /\ src[p] < WorldSize
        /\ alias[p] # NoAlias

====
